---- MODULE Spec2Model ----
(***************************************************************************)
(* Exact inference over binary Bayesian networks: the joint table and      *)
(* inference by enumeration (BayesNet.py, InfByEnum.py) and variable       *)
(* elimination (VariableElim.py).                                          *)
(*                                                                         *)
(* Representation.                                                         *)
(*   - A Python str is a sequence of one-character strings: 'B|A' is       *)
(*     <<"B", "|", "A">>, the label '+a' is <<"+", "a">>.                  *)
(*   - A table row  [label_1, ..., label_m, weight]  is the record         *)
(*     [lab |-> <<label_1, ..., label_m>>, p |-> weight]: row[:-1] is      *)
(*     row.lab and row[-1] is row.p.                                       *)
(*   - An OrderedDict is the sequence of its items in insertion order.     *)
(*   - A weight is an exact rational [n |-> numerator, d |-> denominator]  *)
(*     in lowest terms; Python computes the same products, sums and        *)
(*     quotients in binary floating point.                                 *)
(*   - None is the value None below.                                       *)
(***************************************************************************)
EXTENDS Integers, Sequences, FiniteSets, TLC

\* ------------------------------------------------------------------------
\* Weights: exact rationals
\* ------------------------------------------------------------------------
RECURSIVE GCD(_, _)
GCD(a, b) == IF b = 0 THEN a ELSE GCD(b, a % b)

R(n, d) == LET g == GCD(n, d) IN [n |-> n \div g, d |-> d \div g]

Zero == R(0, 1)
One == R(1, 1)
Mul(x, y) == R(x.n * y.n, x.d * y.d)
Add(x, y) == R(x.n * y.d + y.n * x.d, x.d * y.d)
Div(x, y) == R(x.n * y.d, x.d * y.n)
Minus(x, y) == R(x.n * y.d - y.n * x.d, x.d * y.d)

\* ------------------------------------------------------------------------
\* Strings
\* ------------------------------------------------------------------------
None == <<"None">>

UpperChars == <<"A", "B", "C", "D">>
LowerChars == <<"a", "b", "c", "d">>

Range(s) == {s[i] : i \in 1..Len(s)}

\* list.index(x), 1-based
Index(s, x) == CHOOSE i \in 1..Len(s) : s[i] = x /\ \A j \in 1..(i - 1) : s[j] # x

\* position of a character in the character order (Python compares code points)
Ord(ch) ==
    IF ch \in Range(UpperChars) THEN Index(UpperChars, ch)
    ELSE IF ch \in Range(LowerChars) THEN Len(UpperChars) + Index(LowerChars, ch)
    ELSE 0

\* str.lower(), str.upper(), str.isupper()
lower(s) ==
    [i \in 1..Len(s) |->
        IF s[i] \in Range(UpperChars) THEN LowerChars[Index(UpperChars, s[i])] ELSE s[i]]
upper(s) ==
    [i \in 1..Len(s) |->
        IF s[i] \in Range(LowerChars) THEN UpperChars[Index(LowerChars, s[i])] ELSE s[i]]
isupper(s) ==
    /\ \E i \in 1..Len(s) : s[i] \in Range(UpperChars)
    /\ \A i \in 1..Len(s) : s[i] \notin Range(LowerChars)

\* s.replace('+', '').replace('-', '')
StripSigns(s) == SelectSeq(s, LAMBDA ch : ch \notin {"+", "-"})

\* sub in s, for two strings
InStr(sub, s) ==
    \E i \in 0..(Len(s) - Len(sub)) : SubSeq(s, i + 1, i + Len(sub)) = sub

\* ''.join(strs) and sep.join(strs)
RECURSIVE Join(_, _)
Join(sep, strs) ==
    IF Len(strs) = 0 THEN <<>>
    ELSE IF Len(strs) = 1 THEN strs[1]
    ELSE strs[1] \o sep \o Join(sep, Tail(strs))

\* s1 < s2 for two strings
RECURSIVE StrLess(_, _)
StrLess(s1, s2) ==
    IF Len(s2) = 0 THEN FALSE
    ELSE IF Len(s1) = 0 THEN TRUE
    ELSE IF Ord(s1[1]) # Ord(s2[1]) THEN Ord(s1[1]) < Ord(s2[1])
    ELSE StrLess(Tail(s1), Tail(s2))

\* sorted(strs), for a list of distinct strings
RECURSIVE sorted(_)
sorted(strs) ==
    IF Len(strs) = 0 THEN <<>>
    ELSE LET m == CHOOSE i \in 1..Len(strs) :
                      \A j \in 1..Len(strs) : j = i \/ StrLess(strs[i], strs[j])
         IN <<strs[m]>> \o sorted(SubSeq(strs, 1, m - 1) \o SubSeq(strs, m + 1, Len(strs)))

RECURSIVE Pow2(_)
Pow2(k) == IF k = 0 THEN 1 ELSE 2 * Pow2(k - 1)

\* ------------------------------------------------------------------------
\* OrderedDict: keys, lookup
\* ------------------------------------------------------------------------
Keys(dict) == [i \in 1..Len(dict) |-> dict[i].key]
HasKey(dict, k) == \E i \in 1..Len(dict) : dict[i].key = k
Get(dict, k) == dict[CHOOSE i \in 1..Len(dict) : dict[i].key = k].val

\* ------------------------------------------------------------------------
\* BayesNet: the joint table
\* ------------------------------------------------------------------------

\* i & 2**exp
BitAnd2(i, exp) == ((i \div Pow2(exp)) % 2) * Pow2(exp)

\* signs with the first variable reading the lowest bit
signs_low_bit_first(num_vars, i) ==
    [j \in 1..num_vars |-> IF BitAnd2(i, j - 1) < 1 THEN "+" ELSE "-"]

\* BayesNet.signs: the signs of the num_vars variables in row i of a truth table;
\* exp runs from num_vars - 1 down to 0, so the first variable reads the top bit.
signs(num_vars, i) ==
    [j \in 1..num_vars |-> IF BitAnd2(i, num_vars - j) < 1 THEN "+" ELSE "-"]

\* prob_table_key = n if not len(n_parents) else '{}|{}'.format(n, ''.join(n_parents))
prob_table_key(n, n_parents) ==
    IF Len(n_parents) = 0 THEN n ELSE n \o <<"|">> \o Join(<<>>, n_parents)

\* prob_key: the labels of n and its parents, in sorted name order, concatenated
prob_key(nodes, var_signs, n, n_parents) ==
    LET names == sorted(<<n>> \o n_parents)
        sign_indices == [t \in 1..Len(names) |-> Index(nodes, names[t])]
    IN Join(<<>>, [t \in 1..Len(names) |->
                      <<var_signs[sign_indices[t]]>> \o lower(nodes[sign_indices[t]])])

\* the inner loop of build_jpt: jpt_product *= self.probs[prob_table_key][prob_key]
RECURSIVE jpt_product(_, _, _, _, _)
jpt_product(nodes, prnts, prbs, var_signs, t) ==
    IF t = 0 THEN One
    ELSE Mul(jpt_product(nodes, prnts, prbs, var_signs, t - 1),
             Get(Get(prbs, prob_table_key(prnts[t].key, prnts[t].val)),
                 prob_key(nodes, var_signs, prnts[t].key, prnts[t].val)))

\* BayesNet.build_jpt
build_jpt(prnts, prbs) ==
    LET nodes == Keys(prnts)
        num_vars == Len(nodes)
    IN [r \in 1..Pow2(num_vars) |->
           LET var_signs == signs(num_vars, r - 1)
           IN [lab |-> [j \in 1..num_vars |-> <<var_signs[j]>> \o lower(nodes[j])],
               p |-> jpt_product(nodes, prnts, prbs, var_signs, Len(prnts))]]

\* ------------------------------------------------------------------------
\* BayesNet: sum_out, normalize, solve
\* ------------------------------------------------------------------------

\* row[0:k] + row[k + 1:len(row) - 1], k counted from 0
DropCol(lab, k) == SubSeq(lab, 1, k) \o SubSeq(lab, k + 2, Len(lab))

\* the loop of BayesNet.sum_out that does not add the weight of the partner row
RECURSIVE sum_out_loop_no_partner(_, _, _, _, _)
sum_out_loop_no_partner(px, k, i, collapsed, p_new) ==
    IF i >= Len(px) THEN p_new
    ELSE IF i \in collapsed THEN sum_out_loop_no_partner(px, k, i + 1, collapsed, p_new)
    ELSE LET adjusted_idx == i + (Len(px) \div Pow2(1 + k))
         IN sum_out_loop_no_partner(px, k, i + 1, collapsed \cup {adjusted_idx},
                Append(p_new, [lab |-> DropCol(px[i + 1].lab, k), p |-> px[i + 1].p]))

\* the loop of BayesNet.sum_out over i, with the set collapsed and the list p_new
RECURSIVE sum_out_loop(_, _, _, _, _)
sum_out_loop(px, k, i, collapsed, p_new) ==
    IF i >= Len(px) THEN p_new
    ELSE IF i \in collapsed THEN sum_out_loop(px, k, i + 1, collapsed, p_new)
    ELSE LET adjusted_idx == i + (Len(px) \div Pow2(1 + k))
             s == Add(px[i + 1].p, px[adjusted_idx + 1].p)
         IN sum_out_loop(px, k, i + 1, collapsed \cup {adjusted_idx},
                         Append(p_new, [lab |-> DropCol(px[i + 1].lab, k), p |-> s]))

\* BayesNet.sum_out: sum out column k (counted from 0) of a table in joint-table order
sum_out(px, k) == sum_out_loop(px, k, 0, {}, <<>>)

\* sum_out_many without its inner loop: the later indices stay as they were
adjust_none(indices, j) == indices

\* the inner loop of sum_out_many: indices after column indices[j] was summed out
adjust(indices, j) ==
    [t \in 1..Len(indices) |->
        IF t > j /\ indices[t] > indices[j] THEN indices[t] - 1 ELSE indices[t]]

\* BayesNet.sum_out_many from its j-th iteration (j counted from 1) on
RECURSIVE sum_out_many_from(_, _, _)
sum_out_many_from(summed, indices, j) ==
    IF j > Len(indices) THEN summed
    ELSE sum_out_many_from(sum_out(summed, indices[j]), adjust(indices, j), j + 1)

\* BayesNet.sum_out_many; list.index counts from 0
sum_out_many(nodes, table, to_sum_out) ==
    sum_out_many_from(table, [t \in 1..Len(to_sum_out) |-> Index(nodes, to_sum_out[t]) - 1], 1)

\* sum([row[-1] for row in p_x])
RECURSIVE SumP(_)
SumP(px) == IF Len(px) = 0 THEN Zero ELSE Add(px[1].p, SumP(Tail(px)))

\* BayesNet.normalize raises ZeroDivisionError at its first row when the sum is zero
normalize_raises(px) == Len(px) > 0 /\ SumP(px).n = 0

\* BayesNet.normalize
normalize(px) ==
    LET s == SumP(px)
    IN [i \in 1..Len(px) |-> [lab |-> px[i].lab, p |-> Div(px[i].p, s)]]

\* the wildcard test of solve: `values[j] is not None` in BayesNet,
\* `not values[j].isupper()` in InfByEnum
is_fixed(class, v) == IF class = "InfByEnum" THEN ~isupper(v) ELSE v # None

\* the rows solve keeps: those not in rows_to_remove
solve_table(class, px, vals) ==
    SelectSeq(px, LAMBDA row :
        \A j \in 1..Len(row.lab) : ~(is_fixed(class, vals[j]) /\ vals[j] # row.lab[j]))

\* solve that normalizes whatever it kept
solve_normalizes_always(class, px, vals) == TRUE

\* solve normalizes unless exactly one row is kept
solve_normalizes(class, px, vals) == Len(solve_table(class, px, vals)) # 1
solve_raises(class, px, vals) ==
    solve_normalizes(class, px, vals) /\ normalize_raises(solve_table(class, px, vals))

\* BayesNet.solve and InfByEnum.solve
solve(class, px, vals) ==
    IF solve_normalizes(class, px, vals)
    THEN normalize(solve_table(class, px, vals))
    ELSE solve_table(class, px, vals)

\* ------------------------------------------------------------------------
\* The networks a run is constructed with
\* ------------------------------------------------------------------------

\* The CPT of node n with parents ps as the dict the constructors are given: one
\* entry per assignment of sorted([n] + ps), first variable slowest, '+' before
\* '-', keyed by the concatenated labels; plus[c + 1] is P(+n | c-th parent
\* assignment), the parents' assignments counted the same way over ps.
CPT(n, ps, plus) ==
    LET names == sorted(<<n>> \o ps)
        m == Len(names)
    IN [r \in 1..Pow2(m) |->
           LET sg == [t \in 1..m |-> IF ((r - 1) \div Pow2(m - t)) % 2 = 0 THEN "+" ELSE "-"]
               sign_of(v) == sg[Index(names, v)]
               bit(t) == IF sign_of(ps[t]) = "-" THEN Pow2(Len(ps) - t) ELSE 0
               RECURSIVE code(_)
               code(t) == IF t = 0 THEN 0 ELSE code(t - 1) + bit(t)
               pr == plus[code(Len(ps)) + 1]
           IN [key |-> Join(<<>>, [j \in 1..m |-> <<sg[j]>> \o lower(names[j])]),
               val |-> IF sign_of(n) = "+" THEN pr ELSE Minus(One, pr)]]

\* a network from its declarations <<n, ps, plus>>, in declaration order
Network(decl) ==
    [parents |-> [i \in 1..Len(decl) |-> [key |-> decl[i][1], val |-> decl[i][2]]],
     probs |-> [i \in 1..Len(decl) |->
                   [key |-> prob_table_key(decl[i][1], decl[i][2]),
                    val |-> CPT(decl[i][1], decl[i][2], decl[i][3])]]]

A == <<"A">>
B == <<"B">>
C == <<"C">>
D == <<"D">>

Chain == Network(<<
    <<A, <<>>, <<R(1, 4)>> >>,
    <<B, <<A>>, <<R(1, 2), One>> >>,
    <<C, <<B>>, <<R(1, 4), Zero>> >> >>)

Fork == Network(<<
    <<A, <<>>, <<R(1, 3)>> >>,
    <<B, <<A>>, <<R(1, 2), R(1, 4)>> >>,
    <<C, <<A>>, <<R(3, 4), Zero>> >> >>)

Collider == Network(<<
    <<A, <<>>, <<R(1, 4)>> >>,
    <<B, <<>>, <<R(1, 3)>> >>,
    <<C, <<A, B>>, <<R(1, 4), R(1, 2), Zero, Zero>> >> >>)

\* the chain again, declared child first
ChainReversed == Network(<<
    <<C, <<B>>, <<R(1, 4), Zero>> >>,
    <<B, <<A>>, <<R(1, 2), One>> >>,
    <<A, <<>>, <<R(1, 4)>> >> >>)

\* the collider with its child declared between its parents
ColliderMixed == Network(<<
    <<B, <<>>, <<R(1, 3)>> >>,
    <<C, <<A, B>>, <<R(1, 4), R(1, 2), Zero, Zero>> >>,
    <<A, <<>>, <<R(1, 4)>> >> >>)

\* every node a parent of every later one
Triangle == Network(<<
    <<A, <<>>, <<R(1, 4)>> >>,
    <<B, <<A>>, <<R(1, 2), One>> >>,
    <<C, <<A, B>>, <<R(1, 4), R(1, 2), Zero, R(3, 4)>> >> >>)

Pair == Network(<<
    <<A, <<>>, <<R(1, 4)>> >>,
    <<B, <<A>>, <<R(1, 2), Zero>> >> >>)

Diamond == Network(<<
    <<A, <<>>, <<R(1, 4)>> >>,
    <<B, <<A>>, <<R(1, 2), One>> >>,
    <<C, <<A>>, <<R(3, 4), R(1, 4)>> >>,
    <<D, <<B, C>>, <<R(1, 4), R(1, 2), Zero, R(3, 4)>> >> >>)

MaxVars == 3

Networks ==
    {net \in {Chain, Fork, Collider, Triangle, ChainReversed, ColliderMixed, Pair,
            Diamond} :
        Len(net.parents) <= MaxVars}

\* ------------------------------------------------------------------------
\* VariableElim
\* ------------------------------------------------------------------------

\* just_evidence_vars = [var for var in values if var is not None and not var.isupper()]
just_evidence_vars(vals) == SelectSeq(vals, LAMBDA var : var # None /\ ~isupper(var))

\* evidence_dict: the name of each evidence label -> its index in values (counted
\* from 1); a later label of the same name overwrites an earlier one
evidence_dict(ev) ==
    {<<StripSigns(ev[i]), i>> : i \in {t \in 1..Len(ev) :
        \A u \in (t + 1)..Len(ev) : StripSigns(ev[u]) # StripSigns(ev[t])}}

\* cols = [prob_var_key[i:i + 2] for i in range(0, len(prob_var_key), 2)]
cols(prob_var_key) ==
    [c \in 1..((Len(prob_var_key) + 1) \div 2) |->
        SubSeq(prob_var_key, 2 * c - 1, IF 2 * c <= Len(prob_var_key) THEN 2 * c ELSE 2 * c - 1)]

\* enact_evidence without the test that the evidence variable is in the key
evidence_table_any_key(prob_dict, ev) ==
    LET kept == SelectSeq(prob_dict, LAMBDA item :
                    \A e \in evidence_dict(ev) : ev[e[2]] \in Range(cols(item.key)))
    IN [i \in 1..Len(kept) |-> [lab |-> cols(kept[i].key), p |-> kept[i].val]]

\* the rows of one CPT that enact_evidence keeps, each as cols + [prob_value]
evidence_table(prob_dict, ev) ==
    LET kept == SelectSeq(prob_dict, LAMBDA item :
                    \A e \in evidence_dict(ev) :
                        ~(InStr(e[1], item.key) /\ ev[e[2]] \notin Range(cols(item.key))))
    IN [i \in 1..Len(kept) |-> [lab |-> cols(kept[i].key), p |-> kept[i].val]]

\* VariableElim.enact_evidence
enact_evidence(prbs, ev) ==
    [t \in 1..Len(prbs) |-> [key |-> prbs[t].key, val |-> evidence_table(prbs[t].val, ev)]]

\* VariableElim.get_hidden_vars
get_hidden_vars(nodes, vals) ==
    LET given == SelectSeq(vals, LAMBDA var : var # None)
        nonhidden_vars == {StripSigns(upper(given[i])) : i \in 1..Len(given)}
    IN SelectSeq(nodes, LAMBDA var : var \notin nonhidden_vars)

\* VariableElim.evidence_matches, on the sets of labels of two rows
evidence_matches(row_set, other_row_set) ==
    LET same == row_set \cap other_row_set
        row_set_unique == {Tail(var) : var \in row_set \ same}
        other_row_set_unique == {Tail(var) : var \in other_row_set \ same}
    IN Cardinality(same) # 0 /\ row_set_unique \cap other_row_set_unique = {}

\* sorted(list(labels), key=lambda v: v[1])
RECURSIVE sorted_by_name(_)
sorted_by_name(labels) ==
    IF labels = {} THEN <<>>
    ELSE LET first == CHOOSE l \in labels : \A o \in labels : Ord(l[2]) <= Ord(o[2])
         IN <<first>> \o sorted_by_name(labels \ {first})

\* join that gives a new row the weight of the row of var_expanded_table alone
join_row_first_weight(row, next_table) ==
    LET matching == SelectSeq(next_table, LAMBDA other_row :
                        evidence_matches(Range(row.lab), Range(other_row.lab)))
    IN [i \in 1..Len(matching) |->
           [lab |-> sorted_by_name(Range(row.lab) \cup Range(matching[i].lab)),
            p |-> row.p]]

\* join that does not sort the labels of a new row
join_row_unsorted(row, next_table) ==
    LET matching == SelectSeq(next_table, LAMBDA other_row :
                        evidence_matches(Range(row.lab), Range(other_row.lab)))
    IN [i \in 1..Len(matching) |->
           [lab |-> row.lab \o SelectSeq(matching[i].lab, LAMBDA l : l \notin Range(row.lab)),
            p |-> Mul(row.p, matching[i].p)]]

\* the rows join appends to temp_table for one row of var_expanded_table
join_row(row, next_table) ==
    LET matching == SelectSeq(next_table, LAMBDA other_row :
                        evidence_matches(Range(row.lab), Range(other_row.lab)))
    IN [i \in 1..Len(matching) |->
           [lab |-> sorted_by_name(Range(row.lab) \cup Range(matching[i].lab)),
            p |-> Mul(row.p, matching[i].p)]]

\* temp_table: the outer loop of one round of join
RECURSIVE join_tables(_, _)
join_tables(var_expanded_table, next_table) ==
    IF Len(var_expanded_table) = 0 THEN <<>>
    ELSE join_row(var_expanded_table[1], next_table)
         \o join_tables(Tail(var_expanded_table), next_table)

\* the while loop of join
RECURSIVE join_queue(_, _, _)
join_queue(tbls, var_expanded_table, key_queue) ==
    IF Len(key_queue) = 0 THEN var_expanded_table
    ELSE join_queue(tbls, join_tables(var_expanded_table, Get(tbls, key_queue[1])),
                    Tail(key_queue))

\* VariableElim.join; key_queue.pop(0) raises IndexError on an empty queue
join_raises(key_queue) == Len(key_queue) = 0
join(tbls, key_queue) == join_queue(tbls, Get(tbls, key_queue[1]), Tail(key_queue))

\* the loops of VariableElim.sum_out over i and j, with collapsed and p_new
RECURSIVE ve_sum_out_loop(_, _, _, _, _, _)
ve_sum_out_loop(px, k, i, j, collapsed, p_new) ==
    IF i >= Len(px) THEN p_new
    ELSE IF j >= Len(px) THEN ve_sum_out_loop(px, k, i + 1, i + 2, collapsed, p_new)
    ELSE IF i \in collapsed \/ j \in collapsed
         THEN ve_sum_out_loop(px, k, i, j + 1, collapsed, p_new)
    ELSE IF DropCol(px[i + 1].lab, k) = DropCol(px[j + 1].lab, k)
         THEN ve_sum_out_loop(px, k, i, j + 1, collapsed \cup {j},
                  Append(p_new, [lab |-> DropCol(px[i + 1].lab, k),
                                 p |-> Add(px[i + 1].p, px[j + 1].p)]))
    ELSE ve_sum_out_loop(px, k, i, j + 1, collapsed, p_new)

\* VariableElim.sum_out: sum out column k (counted from 0)
ve_sum_out(px, k) == ve_sum_out_loop(px, k, 0, 1, {}, <<>>)

\* join_and_eliminate without its del loop
Del_none(tbls, keys) == tbls

\* del tables[key] for every key of keys
Del(tbls, keys) == SelectSeq(tbls, LAMBDA item : item.key \notin Range(keys))

\* tables[key] = table
Put(tbls, key, table) ==
    IF HasKey(tbls, key)
    THEN [t \in 1..Len(tbls) |-> IF tbls[t].key = key THEN [key |-> key, val |-> table] ELSE tbls[t]]
    ELSE Append(tbls, [key |-> key, val |-> table])

\* join_and_eliminate: keys_with_var, table_key and the joined table
keys_with_var(var, tbls) == SelectSeq(Keys(tbls), LAMBDA table_key : InStr(var, table_key))
joined_key(var, tbls) == Join(<<"_">>, keys_with_var(var, tbls))
var_expanded(var, tbls) == join(tbls, keys_with_var(var, tbls))

\* the column loop of join_and_eliminate: the first column whose label holds
\* var.lower(), the last column when none does (k counted from 0)
var_column(var, first_row) ==
    IF \E c \in 1..Len(first_row.lab) : InStr(lower(var), first_row.lab[c])
    THEN (CHOOSE c \in 1..Len(first_row.lab) :
              /\ InStr(lower(var), first_row.lab[c])
              /\ \A b \in 1..(c - 1) : ~InStr(lower(var), first_row.lab[b])) - 1
    ELSE Len(first_row.lab) - 1

\* join_and_eliminate raises IndexError when no key holds var (join pops an empty
\* queue) and when the joined table is empty (var_expanded_table[0])
join_and_eliminate_raises(var, tbls) ==
    \/ join_raises(keys_with_var(var, tbls))
    \/ Len(var_expanded(var, tbls)) = 0

\* VariableElim.join_and_eliminate: the tables it returns
join_and_eliminate(var, tbls) ==
    LET table == var_expanded(var, tbls)
    IN Put(Del(tbls, keys_with_var(var, tbls)), joined_key(var, tbls),
           ve_sum_out(table, var_column(var, table[1])))

\* the last lines of VariableElim.solve
is_distribution(vals, hidden) == Len(vals) # Len(hidden) + Len(just_evidence_vars(vals))

RECURSIVE Pow10(_)
Pow10(k) == IF k = 0 THEN 1 ELSE 10 * Pow10(k - 1)

\* round(x, digits): to the nearest multiple of 10^-digits, a tie to the even one
round(x, digits) ==
    LET scaled == x.n * Pow10(digits)
        q == scaled \div x.d
        r == scaled % x.d
        up == 2 * r > x.d \/ (2 * r = x.d /\ q % 2 = 1)
    IN R(IF up THEN q + 1 ELSE q, Pow10(digits))

\* VariableElim.round_last: solve calls it and no file defines it; it rounds the
\* last entry of every row, as BayesNet.print_table does with round(row[-1], 5)
round_last(table, digits) ==
    [i \in 1..Len(table) |-> [lab |-> table[i].lab, p |-> round(table[i].p, digits)]]

Digits == 5

\* ------------------------------------------------------------------------
\* State
\* ------------------------------------------------------------------------
VARIABLES
    cls,          \* the class of the object: "BayesNet", "InfByEnum" or "VariableElim"
    parents,      \* self.parents
    probs,        \* self.probs
    jpt,          \* self.jpt
    pc,           \* "idle", "sum_out_many", "eliminate", "returned" or "raised"
    calls,        \* the number of calls on the joint table that have ended
    to_sum_out,   \* sum_out_many: its argument
    indices,      \* sum_out_many: indices
    j,            \* sum_out_many: the next iteration of its outer loop, counted from 1
    summed_out,   \* sum_out_many: summed_out, then the caller's p_x
    values,       \* VariableElim.solve: values
    tables,       \* VariableElim.solve: tables
    hidden_vars,  \* VariableElim.solve: hidden_vars
    todo,         \* VariableElim.solve: the hidden variables its loop has yet to take
    key,          \* VariableElim.solve: key, None while unbound
    call,         \* the function the last step called, with its arguments and result
    result,       \* the table the call returned
    err           \* the exception the call raised, "none" otherwise

vars == <<cls, parents, probs, jpt, pc, calls, to_sum_out, indices, j, summed_out,
          values, tables, hidden_vars, todo, key, call, result, err>>

\* self.nodes = list(parents.keys()), self.num_vars = len(self.nodes)
nodes == Keys(parents)
num_vars == Len(nodes)

Classes == {"BayesNet", "InfByEnum", "VariableElim"}

\* the calls of one run
MaxCalls == 1

NoCall == [fn |-> "none"]

\* the locals of a call that has not begun
Locals ==
    /\ to_sum_out = <<>>
    /\ indices = <<>>
    /\ j = 0
    /\ summed_out = <<>>
    /\ values = <<>>
    /\ tables = <<>>
    /\ hidden_vars = <<>>
    /\ todo = <<>>
    /\ key = None
    /\ call = NoCall
    /\ result = <<>>
    /\ err = "none"

\* After construction. BayesNet.__init__ builds the joint table; the body of
\* VariableElim.__init__ assigns nodes, parents, num_vars and probs and builds
\* none. (InfByEnum.__init__ and VariableElim.__init__ first call
\* BayesNet.__init__ with parents alone.)
Init ==
    /\ cls \in Classes
    /\ \E net \in Networks :
        /\ parents = net.parents
        /\ probs = net.probs
        /\ jpt = IF cls = "VariableElim" THEN <<>> ELSE build_jpt(net.parents, net.probs)
    /\ pc = "idle"
    /\ calls = 0
    /\ Locals

\* ------------------------------------------------------------------------
\* Arguments
\* ------------------------------------------------------------------------

\* the lists of k distinct elements of a set
RECURSIVE Lists(_, _)
Lists(S, k) ==
    IF k = 0 THEN {<<>>}
    ELSE UNION {{<<x>> \o rest : rest \in Lists(S \ {x}, k - 1)} : x \in S}

ListsUpTo(S, k) == UNION {Lists(S, m) : m \in 0..k}

Labels(var) == {<<"+">> \o lower(var), <<"-">> \o lower(var)}

\* the wildcard solve expects for a variable
Wildcard(class, var) == IF class = "InfByEnum" THEN var ELSE None

\* the tuples that take their i-th element from choices[i]
RECURSIVE Product(_)
Product(choices) ==
    IF Len(choices) = 0 THEN {<<>>}
    ELSE {<<x>> \o rest : x \in choices[1], rest \in Product(Tail(choices))}

\* values for solve over the columns vs: a label or the wildcard for each
SolveValues(class, vs) ==
    Product([i \in 1..Len(vs) |-> Labels(vs[i]) \cup {Wildcard(class, vs[i])}])

\* values for VariableElim.solve: per variable None (hidden), its name (query)
\* or one of its labels (evidence)
QueryValues(ns) == Product([i \in 1..Len(ns) |-> Labels(ns[i]) \cup {None, ns[i]}])

\* the variables sum_out_many has not summed out, in declaration order
remaining(ns, summed) == SelectSeq(ns, LAMBDA var : var \notin Range(summed))

\* ------------------------------------------------------------------------
\* Inference by enumeration
\* ------------------------------------------------------------------------

\* bn.sum_out_many(to_sum_out): up to the first iteration of its loop
sum_out_many_call ==
    /\ pc = "idle"
    /\ cls # "VariableElim"
    /\ calls < MaxCalls
    /\ \E vs \in ListsUpTo(Range(nodes), num_vars) :
        /\ to_sum_out' = vs
        /\ indices' = [t \in 1..Len(vs) |-> Index(nodes, vs[t]) - 1]
    /\ summed_out' = jpt
    /\ j' = 1
    /\ pc' = "sum_out_many"
    /\ UNCHANGED <<cls, parents, probs, jpt, calls, values, tables, hidden_vars, todo,
                   key, call, result, err>>

\* one iteration of the loop of sum_out_many
sum_out_step ==
    /\ pc = "sum_out_many"
    /\ j <= Len(indices)
    /\ LET p_new == sum_out(summed_out, indices[j])
       IN /\ summed_out' = p_new
          /\ call' = [fn |-> "BayesNet.sum_out", p_x |-> summed_out, k |-> indices[j],
                      out |-> p_new]
    /\ indices' = adjust(indices, j)
    /\ j' = j + 1
    /\ UNCHANGED <<cls, parents, probs, jpt, pc, calls, to_sum_out, values, tables,
                   hidden_vars, todo, key, result, err>>

\* normalize divides row[-1] of the rows solve kept, in place: the rows of table
\* that are the kept rows afterwards
normalized_in_place(class, table, vals) ==
    LET s == SumP(solve_table(class, table, vals))
    IN [r \in 1..Len(table) |->
           IF Len(solve_table(class, <<table[r]>>, vals)) = 1
           THEN [lab |-> table[r].lab, p |-> Div(table[r].p, s)]
           ELSE table[r]]

\* bn.solve(p_x, values) on the table sum_out_many returned. sum_out_many returns
\* self.jpt itself when to_sum_out is empty, and then normalize writes to the
\* rows of self.jpt.
solve_call ==
    /\ pc = "sum_out_many"
    /\ j > Len(indices)
    /\ \E vals \in SolveValues(cls, remaining(nodes, to_sum_out)) :
        /\ values' = vals
        /\ call' = [fn |-> "solve", p_x |-> summed_out, values |-> vals]
        /\ IF solve_raises(cls, summed_out, vals)
           THEN /\ pc' = "raised"
                /\ err' = "ZeroDivisionError"
                /\ UNCHANGED <<result, jpt, summed_out>>
           ELSE /\ pc' = "returned"
                /\ result' = solve(cls, summed_out, vals)
                /\ summed_out' = IF solve_normalizes(cls, summed_out, vals)
                                 THEN normalized_in_place(cls, summed_out, vals)
                                 ELSE summed_out
                /\ jpt' = IF Len(to_sum_out) = 0 /\ solve_normalizes(cls, summed_out, vals)
                          THEN normalized_in_place(cls, jpt, vals)
                          ELSE jpt
                /\ err' = "none"
    /\ UNCHANGED <<cls, parents, probs, calls, to_sum_out, indices, j, tables,
                   hidden_vars, todo, key>>

\* ------------------------------------------------------------------------
\* Variable elimination
\* ------------------------------------------------------------------------

\* VariableElim.solve(values): up to the first iteration of its loop
ve_solve_call ==
    /\ pc = "idle"
    /\ cls = "VariableElim"
    /\ \E vals \in QueryValues(nodes) :
        /\ values' = vals
        /\ LET restricted == enact_evidence(probs, just_evidence_vars(vals))
           IN /\ tables' = restricted
              /\ call' = [fn |-> "enact_evidence", values |-> just_evidence_vars(vals),
                          out |-> restricted]
        /\ hidden_vars' = get_hidden_vars(nodes, vals)
        /\ todo' = get_hidden_vars(nodes, vals)
    /\ pc' = "eliminate"
    /\ UNCHANGED <<cls, parents, probs, jpt, calls, to_sum_out, indices, j, summed_out,
                   key, result, err>>

\* one iteration of the loop of VariableElim.solve:
\* tables, key = self.join_and_eliminate(var, tables, printer)
ve_join_and_eliminate ==
    /\ pc = "eliminate"
    /\ Len(todo) > 0
    /\ LET var == todo[1]
       IN IF join_and_eliminate_raises(var, tables)
          THEN /\ pc' = "raised"
               /\ err' = "IndexError"
               /\ UNCHANGED <<tables, key, todo, call>>
          ELSE LET var_expanded_table == var_expanded(var, tables)
                   k == var_column(var, var_expanded_table[1])
                   out == join_and_eliminate(var, tables)
               IN /\ tables' = out
                  /\ key' = joined_key(var, tables)
                  /\ todo' = Tail(todo)
                  /\ call' = [fn |-> "join_and_eliminate", var |-> var, tables |-> tables,
                              key_queue |-> keys_with_var(var, tables),
                              joined |-> var_expanded_table,
                              k |-> k,
                              summed |-> Get(out, joined_key(var, tables)),
                              out |-> out]
                  /\ UNCHANGED <<pc, err>>
    /\ UNCHANGED <<cls, parents, probs, jpt, calls, to_sum_out, indices, j, summed_out,
                   values, hidden_vars, result>>

\* joined = tables[key] if len(tables) == 1 else self.join(tables, list(tables.keys()))
final_joined(tbls, k) == IF Len(tbls) = 1 THEN Get(tbls, k) ELSE join(tbls, Keys(tbls))

\* the lines of VariableElim.solve after its loop; key is unbound when the loop
\* never ran
ve_finish ==
    /\ pc = "eliminate"
    /\ Len(todo) = 0
    /\ IF Len(tables) = 1 /\ key = None
       THEN /\ pc' = "raised"
            /\ err' = "UnboundLocalError"
            /\ UNCHANGED <<result, call>>
       ELSE LET joined == final_joined(tables, key)
                normal == is_distribution(values, hidden_vars)
            IN /\ call' = [fn |-> "final", tables |-> tables, joined |-> joined]
               /\ IF normal /\ normalize_raises(joined)
                  THEN /\ pc' = "raised"
                       /\ err' = "ZeroDivisionError"
                       /\ UNCHANGED result
                  ELSE /\ pc' = "returned"
                       /\ result' = round_last(IF normal THEN normalize(joined) ELSE joined,
                                               Digits)
                       /\ err' = "none"
    /\ UNCHANGED <<cls, parents, probs, jpt, calls, to_sum_out, indices, j, summed_out,
                   values, tables, hidden_vars, todo, key>>

\* the longest key queue a direct call of join is given
MaxQueue == 3

\* self.join(tables, key_queue) called on the tables of a running elimination
join_call ==
    /\ pc = "eliminate"
    /\ \E key_queue \in UNION {Lists(Range(Keys(tables)), m) : m \in 2..MaxQueue} :
        LET var_expanded_table == join(tables, key_queue)
        IN /\ call' = [fn |-> "join", tables |-> tables, key_queue |-> key_queue,
                       out |-> var_expanded_table]
           /\ result' = var_expanded_table
    /\ pc' = "returned"
    /\ UNCHANGED <<cls, parents, probs, jpt, calls, to_sum_out, indices, j, summed_out,
                   values, tables, hidden_vars, todo, key, err>>

\* the loop of join_and_eliminate over the columns of var_expanded_table[0] binds
\* k only when that row has a column
join_and_eliminate_unbound(var, tbls) ==
    /\ ~join_and_eliminate_raises(var, tbls)
    /\ Len(var_expanded(var, tbls)[1].lab) = 0

\* self.join_and_eliminate(var, tables, printer) called on the tables of a running
\* elimination, for any variable name. The dict tables is written in place: the
\* joined table is stored before k is looked for.
join_and_eliminate_call ==
    /\ pc = "eliminate"
    /\ \E var \in {<<UpperChars[c]>> : c \in 1..Len(UpperChars)} :
        LET keys == keys_with_var(var, tables)
            stored == Put(Del(tables, keys), joined_key(var, tables), var_expanded(var, tables))
        IN IF join_raises(keys)
           THEN /\ pc' = "raised"
                /\ err' = "IndexError"
                /\ call' = [fn |-> "join_and_eliminate_call", var |-> var,
                            tables |-> tables, out |-> tables]
                /\ UNCHANGED <<tables, result>>
           ELSE IF join_and_eliminate_raises(var, tables)
           THEN /\ pc' = "raised"
                /\ err' = "IndexError"
                /\ call' = [fn |-> "join_and_eliminate_call", var |-> var,
                            tables |-> tables, out |-> stored]
                /\ tables' = stored
                /\ UNCHANGED result
           ELSE IF join_and_eliminate_unbound(var, tables)
           THEN /\ pc' = "raised"
                /\ err' = "UnboundLocalError"
                /\ call' = [fn |-> "join_and_eliminate_call", var |-> var,
                            tables |-> tables, out |-> stored]
                /\ tables' = stored
                /\ UNCHANGED result
           ELSE LET out == join_and_eliminate(var, tables)
                IN /\ pc' = "returned"
                   /\ err' = "none"
                   /\ call' = [fn |-> "join_and_eliminate_call", var |-> var,
                               tables |-> tables, out |-> out]
                   /\ tables' = out
                   /\ result' = out
    /\ UNCHANGED <<cls, parents, probs, jpt, calls, to_sum_out, indices, j, summed_out,
                   values, hidden_vars, todo, key>>

\* the call has ended: its locals are gone. A VariableElim holds no table that a
\* call writes to, so its calls need no bound and are not counted.
return ==
    /\ pc \in {"returned", "raised"}
    /\ pc' = "idle"
    /\ calls' = IF cls = "VariableElim" THEN calls ELSE calls + 1
    /\ to_sum_out' = <<>>
    /\ indices' = <<>>
    /\ j' = 0
    /\ summed_out' = <<>>
    /\ values' = <<>>
    /\ tables' = <<>>
    /\ hidden_vars' = <<>>
    /\ todo' = <<>>
    /\ key' = None
    /\ call' = NoCall
    /\ result' = <<>>
    /\ err' = "none"
    /\ UNCHANGED <<cls, parents, probs, jpt>>

Next ==
    \/ sum_out_many_call
    \/ sum_out_step
    \/ solve_call
    \/ ve_solve_call
    \/ ve_join_and_eliminate
    \/ ve_finish
    \/ join_call
    \/ join_and_eliminate_call
    \/ return

Spec == Init /\ [][Next]_vars

\* ------------------------------------------------------------------------
\* Vocabulary of the properties
\* ------------------------------------------------------------------------

\* the variable a label is about, and whether a value is a label
NameOf(label) == label[2]
IsLabel(v) == Len(v) = 2 /\ v[1] \in {"+", "-"}

\* the labels of a row as an assignment, and the variables of a table's columns
Assignment(row) == Range(row.lab)
Scope(table) == {NameOf(l) : l \in UNION {Assignment(table[i]) : i \in 1..Len(table)}}
LabelsIn(table) == UNION {Assignment(table[i]) : i \in 1..Len(table)}

\* two assignments give no variable two labels
Compatible(S, T) == \A l \in S, m \in T : NameOf(l) = NameOf(m) => l = m

\* the assignments that give every variable of names one of its labels in labels
RECURSIVE Assignments(_, _)
Assignments(names, labels) ==
    IF names = {} THEN {{}}
    ELSE LET n == CHOOSE x \in names : TRUE
         IN {S \cup {l} : S \in Assignments(names \ {n}, labels),
                          l \in {m \in labels : NameOf(m) = n}}

\* the sum of the weights of the rows of table whose index satisfies Keep
RECURSIVE SumWhere(_, _, _)
SumWhere(table, Keep(_), i) ==
    IF i > Len(table) THEN Zero
    ELSE Add(IF Keep(i) THEN table[i].p ELSE Zero, SumWhere(table, Keep, i + 1))

\* the position of a row of a joint-order table: '-' sets the bit of its column,
\* the first column the top bit
RowNumber(lab) ==
    LET RECURSIVE num(_)
        num(c) == IF c = 0 THEN 0
                  ELSE num(c - 1) + (IF lab[c][1] = "-" THEN Pow2(Len(lab) - c) ELSE 0)
    IN num(Len(lab))

\* the CPT entry of variable t of prnts for its own label and its parents' labels
\* in the assignment S: the entry of its dict whose labels are those labels
CPTEntry(prnts, prbs, t, S) ==
    LET family == {lower(prnts[t].key)[1]} \cup {lower(prnts[t].val[u])[1] : u \in 1..Len(prnts[t].val)}
        dict == Get(prbs, prob_table_key(prnts[t].key, prnts[t].val))
        item == CHOOSE it \in Range(dict) :
                    Range(cols(it.key)) = {l \in S : NameOf(l) \in family}
    IN item.val

RECURSIVE CPTProduct(_, _, _, _)
CPTProduct(prnts, prbs, t, S) ==
    IF t = 0 THEN One ELSE Mul(CPTProduct(prnts, prbs, t - 1, S), CPTEntry(prnts, prbs, t, S))

\* ------------------------------------------------------------------------
\* C2
\* ------------------------------------------------------------------------

\* C2: the joint table construction leaves in jpt exactly 2^n rows, row r (from 0)
\* holding the assignment whose sign pattern is r read with the first declared
\* variable as the top bit and '+' as 0, column c labelling the c-th declared
\* variable, and the weight of a row is the product over every variable of its
\* CPT entry for its own label and its parents' labels in that row.
C2_BuildJpt ==
    (pc = "idle" /\ calls = 0 /\ cls # "VariableElim") =>
        /\ Len(jpt) = Pow2(num_vars)
        /\ \A r \in 1..Len(jpt) :
            /\ Len(jpt[r].lab) = num_vars
            /\ \A c \in 1..num_vars : jpt[r].lab[c] \in Labels(nodes[c])
            /\ RowNumber(jpt[r].lab) = r - 1
            /\ jpt[r].p = CPTProduct(parents, probs, Len(parents), Assignment(jpt[r]))

\* a joint table of eight rows, some of weight zero, over variables that were not
\* declared in alphabetical order
C2_Witness ==
    /\ pc = "idle" /\ calls = 0 /\ cls = "BayesNet"
    /\ Len(jpt) = 8
    /\ nodes # sorted(nodes)
    /\ \E r \in 1..Len(jpt) : jpt[r].p = Zero
    /\ \E r \in 1..Len(jpt) : jpt[r].p # Zero

\* ------------------------------------------------------------------------
\* C3
\* ------------------------------------------------------------------------

\* the rows of table that carry every label of vals
KeptRows(table, vals) ==
    SelectSeq(table, LAMBDA row :
        \A c \in 1..Len(row.lab) : IsLabel(vals[c]) => row.lab[c] = vals[c])

\* C3: solve returns the rows of its table that match every label of values, in
\* their order and with their labels; a single kept row keeps its weight (the
\* joint-table entry, when the table is the joint table), and of several kept
\* rows each weight is the kept weight divided by the sum of the kept weights,
\* so the returned weights sum to 1.
C3_Solve ==
    (call.fn = "solve" /\ pc = "returned") =>
        LET kept == KeptRows(call.p_x, call.values)
        IN /\ Len(result) = Len(kept)
           /\ \A i \in 1..Len(kept) : result[i].lab = kept[i].lab
           /\ Len(kept) = 1 =>
                /\ result[1].p = kept[1].p
                /\ Len(to_sum_out) = 0 => result[1] \in Range(jpt)
           /\ Len(kept) > 1 =>
                /\ \A i \in 1..Len(kept) : result[i].p = Div(kept[i].p, SumP(kept))
                /\ SumP(result) = One

\* solve has removed rows and normalized the others, whose weights differed
C3_Witness ==
    /\ call.fn = "solve" /\ pc = "returned"
    /\ Len(result) > 1
    /\ Len(result) < Len(call.p_x)
    /\ \E i \in 1..Len(result) : result[i].p \notin {call.p_x[r].p : r \in 1..Len(call.p_x)}
    /\ \E i, k \in 1..Len(result) : result[i].p # result[k].p

\* ------------------------------------------------------------------------
\* C5
\* ------------------------------------------------------------------------

\* out is table with column k (from 0) summed out: one row for each assignment of
\* the other columns, its weight the sum of the rows of table that agree with it
\* on them
SummedOut(table, k, out) ==
    /\ {out[i].lab : i \in 1..Len(out)} = {DropCol(table[r].lab, k) : r \in 1..Len(table)}
    /\ Len(out) = Cardinality({DropCol(table[r].lab, k) : r \in 1..Len(table)})
    /\ \A i \in 1..Len(out) :
        out[i].p = SumWhere(table, LAMBDA r : DropCol(table[r].lab, k) = out[i].lab, 1)

\* the columns of a table in which both labels of the variable occur
FreeColumns(table) ==
    {k \in 0..(Len(table[1].lab) - 1) :
        Cardinality({table[r].lab[k + 1] : r \in 1..Len(table)}) = 2}

\* C5: summing a variable out of a table leaves one row per assignment of the
\* other columns, weighing the sum of the rows that agree with it there: for
\* every call sum_out_many makes of BayesNet.sum_out, for the call
\* join_and_eliminate makes of VariableElim.sum_out on the column of its
\* variable, and for VariableElim.sum_out on any other column of that table in
\* which both labels occur.
C5_SumOut ==
    /\ call.fn = "BayesNet.sum_out" => SummedOut(call.p_x, call.k, call.out)
    /\ call.fn = "join_and_eliminate" =>
        /\ NameOf(call.joined[1].lab[call.k + 1]) = lower(call.var)[1]
        /\ SummedOut(call.joined, call.k, call.summed)
        /\ \A k \in FreeColumns(call.joined) :
               SummedOut(call.joined, k, ve_sum_out(call.joined, k))

\* BayesNet.sum_out has summed the middle column out of a table of eight rows
\* whose merged rows had different weights
C5_Witness ==
    /\ call.fn = "BayesNet.sum_out"
    /\ Len(call.p_x) = 8 /\ call.k = 1
    /\ Len(call.out) = 4
    /\ \E r \in 1..4 : call.out[r].p \notin {call.p_x[i].p : i \in 1..8}

\* ------------------------------------------------------------------------
\* C6
\* ------------------------------------------------------------------------

\* C6: the table sum_out_many returns for a list of variables is the table it
\* returns for every other order of the same list.
C6_OrderIndependent ==
    (pc = "sum_out_many" /\ j > Len(indices)) =>
        \A other \in Lists(Range(to_sum_out), Len(to_sum_out)) :
            sum_out_many(nodes, jpt, other) = summed_out

\* sum_out_many has summed out two variables, the one declared first first, so
\* that the index of the second moved
C6_Witness ==
    /\ pc = "sum_out_many" /\ j > Len(indices)
    /\ Len(to_sum_out) = 2
    /\ Index(nodes, to_sum_out[1]) < Index(nodes, to_sum_out[2])
    /\ Len(summed_out) = 2
    /\ summed_out[1].p # summed_out[2].p

\* ------------------------------------------------------------------------
\* C4
\* ------------------------------------------------------------------------

\* the pairs of rows, one of each table, that agree on every variable they share
AgreeingPairs(table, other) ==
    {pair \in Range(table) \X Range(other) :
        Compatible(Assignment(pair[1]), Assignment(pair[2]))}

\* the rows of a table as a set of assignments with their weights
Rows(table) == {<<Assignment(table[i]), table[i].p>> : i \in 1..Len(table)}

\* the last call joined two tables that share a variable
JoinedTwo ==
    /\ call.fn = "join"
    /\ Len(call.key_queue) = 2
    /\ Scope(Get(call.tables, call.key_queue[1]))
           \cap Scope(Get(call.tables, call.key_queue[2])) # {}

\* C4: join of two tables that share a variable returns one row for each pair of
\* their rows that agree on every shared variable and for no other pair, the
\* row holding the labels of both and weighing the product of their weights;
\* these are exactly one row for every assignment of the union of the two scopes
\* (an assignment gives a variable a label it has in the tables: either label,
\* or the observed one for a column evidence has restricted).
C4_Join ==
    JoinedTwo =>
        LET table == Get(call.tables, call.key_queue[1])
            other == Get(call.tables, call.key_queue[2])
            all == Assignments(Scope(table) \cup Scope(other),
                               LabelsIn(table) \cup LabelsIn(other))
        IN /\ Rows(call.out) =
                  {<<Assignment(pair[1]) \cup Assignment(pair[2]), Mul(pair[1].p, pair[2].p)>> :
                       pair \in AgreeingPairs(table, other)}
           /\ Len(call.out) = Cardinality(AgreeingPairs(table, other))
           /\ {Assignment(call.out[i]) : i \in 1..Len(call.out)} = all
           /\ Len(call.out) = Cardinality(all)

\* join has joined two unrestricted tables of four rows into one of eight, from
\* sixteen pairs of rows
C4_Witness ==
    /\ JoinedTwo
    /\ Len(Get(call.tables, call.key_queue[1])) = 4
    /\ Len(Get(call.tables, call.key_queue[2])) = 4
    /\ Len(call.out) = 8
    /\ \E i \in 1..8 : call.out[i].p \notin {Zero, One}

\* ------------------------------------------------------------------------
\* C10
\* ------------------------------------------------------------------------

\* the tables named by a key queue share a variable pairwise
PairwiseSharing(tbls, key_queue) ==
    \A a, b \in 1..Len(key_queue) :
        a # b => Scope(Get(tbls, key_queue[a])) \cap Scope(Get(tbls, key_queue[b])) # {}

\* two tables hold the same rows
SameRows(table, other) == Range(table) = Range(other) /\ Len(table) = Len(other)

\* join(A, join(B, C)) for the queue [A, B, C]
JoinRightFirst(tbls, key_queue) ==
    LET bc == Join(<<"_">>, Tail(key_queue))
    IN join(Put(tbls, bc, join(tbls, Tail(key_queue))), <<key_queue[1], bc>>)

\* C10: for tables that share a variable pairwise, join(A, B) holds the rows of
\* join(B, A), and join(join(A, B), C) the rows of join(A, join(B, C)) and of the
\* join in every other order of the queue; the table join_and_eliminate joins
\* holds the same rows for every order of its key queue.
C10_JoinCommutesAssociates ==
    /\ (call.fn = "join" /\ PairwiseSharing(call.tables, call.key_queue)) =>
        /\ \A other \in Lists(Range(call.key_queue), Len(call.key_queue)) :
               SameRows(join(call.tables, other), call.out)
        /\ Len(call.key_queue) = 3 =>
               SameRows(JoinRightFirst(call.tables, call.key_queue), call.out)
    /\ call.fn = "join_and_eliminate" =>
        \A other \in Lists(Range(call.key_queue), Len(call.key_queue)) :
            SameRows(join(call.tables, other), call.joined)

\* join has joined three tables that share a variable pairwise, and lists the
\* rows in another order when the queue is reversed
C10_Witness ==
    /\ call.fn = "join"
    /\ Len(call.key_queue) = 3
    /\ PairwiseSharing(call.tables, call.key_queue)
    /\ Len(call.out) = 8
    /\ join(call.tables, <<call.key_queue[3], call.key_queue[2], call.key_queue[1]>>) # call.out

\* ------------------------------------------------------------------------
\* C7
\* ------------------------------------------------------------------------

\* a CPT dict as a table
AsTable(prob_dict) ==
    [i \in 1..Len(prob_dict) |-> [lab |-> cols(prob_dict[i].key), p |-> prob_dict[i].val]]

\* the rows of a table that agree with the evidence labels
CompatibleRows(table, evidence) ==
    SelectSeq(table, LAMBDA row : Compatible(Assignment(row), evidence))

EnumHidden(ns, vals) ==
    LET at == SelectSeq([i \in 1..Len(ns) |-> i], LAMBDA i : vals[i] = None)
    IN [t \in 1..Len(at) |-> ns[at[t]]]
EnumValues(ns, vals) ==
    LET at == SelectSeq([i \in 1..Len(ns) |-> i], LAMBDA i : vals[i] # None)
    IN [t \in 1..Len(at) |-> IF IsLabel(vals[at[t]]) THEN vals[at[t]] ELSE None]
EnumTable(prnts, prbs, vals) ==
    sum_out_many(Keys(prnts), build_jpt(prnts, prbs), EnumHidden(Keys(prnts), vals))

\* C1 as stated, the weights of both tables rounded alike: VariableElim.solve
\* raises where inference by enumeration raises, and returns the rows
\* enumeration returns, with the same labels in the same columns and the same
\* weights.
C1_EliminationIsEnumeration ==
    (cls = "VariableElim" /\ call.fn = "final" /\ pc \in {"returned", "raised"}) =>
        LET px == EnumTable(parents, probs, values)
            ev == EnumValues(nodes, values)
        IN IF pc = "raised"
           THEN solve_raises("BayesNet", px, ev)
           ELSE /\ ~solve_raises("BayesNet", px, ev)
                /\ SameRows(result, round_last(solve("BayesNet", px, ev), Digits))

\* the evidence labels of a VariableElim.solve
Evidence(vals) == {v \in Range(vals) : IsLabel(v)}

\* a table has one row for every assignment of its columns and no other row, a
\* column of an evidence variable holding the observed label
Complete(table, evidence) ==
    LET free == Scope(table) \ {NameOf(e) : e \in evidence}
        all == Assignments(Scope(table),
                   {l \in LabelsIn(table) : NameOf(l) \in free} \cup evidence)
    IN /\ Len(table) = Pow2(Cardinality(free))
       /\ {Assignment(table[i]) : i \in 1..Len(table)} = all

\* C8 as stated, counting the columns evidence has not restricted: at every
\* stage of VariableElim.solve every table of the collection, every joined table
\* and the final result have 2^|scope| rows, one for each assignment of the scope.
C8_EveryFactorComplete ==
    cls = "VariableElim" =>
        /\ pc = "eliminate" =>
               \A t \in 1..Len(tables) : Complete(tables[t].val, Evidence(values))
        /\ (pc = "eliminate" /\ call.fn = "join_and_eliminate") =>
               Complete(call.joined, Evidence(values))
        /\ (pc = "returned" /\ call.fn = "final") =>
               /\ Complete(call.joined, Evidence(values))
               /\ Complete(result, Evidence(values))

\* the joint probability of a set of labels
Probability(prnts, prbs, evidence) ==
    LET table == build_jpt(prnts, prbs)
    IN SumWhere(table, LAMBDA r : evidence \subseteq Assignment(table[r]), 1)

\* C9 as stated, for the queries that ask for a distribution: solve and
\* VariableElim.solve return no table when the evidence of the query has joint
\* probability zero.
C9_ZeroEvidenceRaises ==
    (pc = "returned" /\ call.fn \in {"solve", "final"}) =>
        ~ /\ \E v \in Range(values) : v # None /\ ~IsLabel(v)
          /\ Probability(parents, probs, Evidence(values)) = Zero

\* ------------------------------------------------------------------------
\* C11
\* ------------------------------------------------------------------------

\* the tables of a collection whose rows have a column for var
Mentioning(var, tbls) ==
    SelectSeq(tbls, LAMBDA item : lower(var)[1] \in Scope(item.val))

\* the tables of a collection whose rows have no column for var
NotMentioning(var, tbls) ==
    SelectSeq(tbls, LAMBDA item : lower(var)[1] \notin Scope(item.val))

\* C11: a step of the loop of VariableElim.solve for the hidden variable var
\* consumes exactly the tables that have a column for var and stores one new
\* table in their place: afterwards the collection is the tables without a
\* column for var, unchanged and in their order, followed by one new table over
\* the other columns of the consumed ones, and no table has a column for var.
C11_StepReplacesMentioning ==
    call.fn = "join_and_eliminate" =>
        /\ Keys(Mentioning(call.var, call.tables)) = call.key_queue
        /\ Len(call.key_queue) > 0
        /\ call.out = Append(NotMentioning(call.var, call.tables),
                             call.out[Len(call.out)])
        /\ Keys(call.out) = Keys(NotMentioning(call.var, call.tables))
                               \o <<Join(<<"_">>, call.key_queue)>>
        /\ Mentioning(call.var, call.out) = <<>>
        /\ Scope(call.out[Len(call.out)].val) =
               UNION {Scope(Get(call.tables, call.key_queue[t])) :
                          t \in 1..Len(call.key_queue)} \ {lower(call.var)[1]}

\* a step has consumed a table that an earlier step had merged, with another
\* table, and has left a third one alone
C11_Witness ==
    /\ call.fn = "join_and_eliminate"
    /\ Len(call.key_queue) = 2
    /\ call.var # hidden_vars[1]
    /\ \E t \in 1..2 : InStr(hidden_vars[1], call.key_queue[t])
    /\ Len(call.tables) = 3
    /\ Len(call.out) = 2
    /\ Len(call.out[2].val) > 1

\* ------------------------------------------------------------------------
\* C12
\* ------------------------------------------------------------------------

\* two collections hold the same tables under the same keys
SameTables(tbls, others) ==
    /\ Range(Keys(tbls)) = Range(Keys(others))
    /\ \A t \in 1..Len(tbls) : Get(others, tbls[t].key) = tbls[t].val

\* C12 as stated: join_and_eliminate called for a variable that no table of the
\* collection has a column for (eliminated before, or never present) raises, and
\* leaves every table with its columns and its weights.
C12_MissingVariableRejected ==
    (call.fn = "join_and_eliminate_call" /\ Mentioning(call.var, call.tables) = <<>>) =>
        /\ pc = "raised"
        /\ SameTables(call.tables, call.out)

\* ------------------------------------------------------------------------
\* C13
\* ------------------------------------------------------------------------

\* C13 as stated: the final join of VariableElim.solve is never empty, and so is
\* the result; two stored tables with no common variable that it joins first are
\* merged into one row for every pair of their rows, weighing the product.
C13_FinalJoinCrossProduct ==
    (call.fn = "final" /\ Len(call.tables) > 1) =>
        LET table == call.tables[1].val
            other == call.tables[2].val
            merged == join(call.tables, <<call.tables[1].key, call.tables[2].key>>)
        IN /\ Len(call.joined) > 0
           /\ pc = "returned" => Len(result) > 0
           /\ Scope(table) \cap Scope(other) = {} =>
                /\ Len(merged) = Len(table) * Len(other)
                /\ Rows(merged) =
                       {<<Assignment(pair[1]) \cup Assignment(pair[2]),
                          Mul(pair[1].p, pair[2].p)>> :
                            pair \in Range(table) \X Range(other)}

\* ------------------------------------------------------------------------
\* C14
\* ------------------------------------------------------------------------

\* C14 as stated: whatever calls were made, the joint table of a BayesNet or an
\* InfByEnum holds the rows and the weights that build_jpt gave it from parents
\* and probs.
C14_StoredDataUnchanged ==
    cls # "VariableElim" => jpt = build_jpt(parents, probs)

\* ------------------------------------------------------------------------
\* C15
\* ------------------------------------------------------------------------

\* the labels of every row of a table are in the order ns declares the variables
InOrderOf(ns, table) ==
    \A r \in 1..Len(table) : \A a, b \in 1..Len(table[r].lab) :
        a < b => Index(ns, upper(<<NameOf(table[r].lab[a])>>))
                     < Index(ns, upper(<<NameOf(table[r].lab[b])>>))

\* the table the last call joined from two tables or more, <<>> when it joined none
LastJoined ==
    IF call.fn = "join" THEN call.out
    ELSE IF call.fn = "join_and_eliminate" /\ Len(call.key_queue) > 1 THEN call.joined
    ELSE IF call.fn = "final" /\ Len(call.tables) > 1 THEN call.joined
    ELSE <<>>

\* C15 as stated: every row of a joined table lists its labels in the order in
\* which parents declares the variables, the column order of the joint table.
C15_JoinedInDeclaredOrder ==
    InOrderOf(nodes, LastJoined)

====
